---------------------------- MODULE Spec2Model ----------------------------
(***************************************************************************)
(* Graph construction utilities of utilities.py: the stencil builders      *)
(* grid / grid_edge / grid_edge_aug, the distance-threshold builders       *)
(* SquareMeshGenerator.ball_connectivity / grid_edge_aug_full, downsample  *)
(* and the multi-level assembler multi_grid.                               *)
(*                                                                         *)
(* Arrays are sequences (1-based) read through 0-based index helpers.      *)
(* Real numbers are kept exact: a rational is a pair <<num, den>>, and a   *)
(* value the code obtains through sqrt or exp is kept as a symbolic term   *)
(* over its exact argument.  Floating-point rounding is outside the model. *)
(* A raised exception is the record [type, names]: the exception class and *)
(* the identifier its message names.  An object is the record of the       *)
(* attributes it has been given so far.                                    *)
(***************************************************************************)
EXTENDS Integers, Sequences, FiniteSets, TLC

VARIABLES fn, args, pc, ret, exc,
          l, num_nodes, X_global, edge_index_global, edge_attr_global, inner,
          self

vars == <<fn, args, pc, ret, exc,
          l, num_nodes, X_global, edge_index_global, edge_attr_global, inner, self>>

\* the locals of multi_grid; inner holds X, edge_index_inner and edge_attr_inner
mg_locals == <<l, num_nodes, X_global, edge_index_global, edge_attr_global, inner>>

(*************************** bounds of the model ***************************)
MaxN == 4
MaxSide == 8
MaxDepth == 3
MaxMesh == 3
MaxRadius == 3
RadiusDen == 2
MaxGridSize == 4
MaxBatch == 2

(******************************* helpers ***********************************)
None == <<>>

NoExc == [type |-> "none", names |-> ""]

Raise(t, n) == [type |-> t, names |-> n]

\* 0-based read of a flat array
At(s, i) == s[i + 1]

Range(s) == { s[k] : k \in 1..Len(s) }

RECURSIVE Concat(_)
Concat(blocks) ==
    IF blocks = <<>> THEN <<>> ELSE Head(blocks) \o Concat(Tail(blocks))

Abs(v) == IF v < 0 THEN -v ELSE v

\* the flat per-node fields the runs are fed: constant, and affine in the index
Fields(len) ==
    { [i \in 1..len |-> base + step * (i - 1)] : base \in 0..1, step \in 0..1 }

(******************************* linspace **********************************)
\* np.linspace(lo, hi, n)[k] = lo + k*(hi-lo)/(n-1), kept as <<num, den>>;
\* a single sample is lo itself
linspace(lo, hi, n) ==
    [k \in 1..n |->
        IF n = 1 THEN <<lo, 1>> ELSE <<lo * (n - 1) + (k - 1) * (hi - lo), n - 1>>]

\* np.vstack([xx.ravel() for xx in np.meshgrid(xs, ys)]).T : row i = (xs[i % n_x], ys[i // n_x])
meshgrid2(xs, ys) ==
    [i \in 1..(Len(xs) * Len(ys)) |->
        <<xs[((i - 1) % Len(xs)) + 1], ys[((i - 1) \div Len(xs)) + 1]>>]

(******************************* downsample ********************************)
\* number of indices taken by the slice ::l over an axis of length n
SliceLen(n, st) == (n + st - 1) \div st

\* data.reshape(-1, g, g)[:, ::l, ::l].reshape(-1, (g // l) ** 2)
downsample(data, grid_size, st) ==
    LET g == grid_size
        L == Len(data)
        c == SliceLen(g, st)
        f == g \div st
    IN  IF g = 0 \/ L % (g * g) # 0
        THEN [exc |-> Raise("ValueError", "reshape"), shape |-> <<0, 0>>, flat |-> <<>>]
        ELSE
          LET B == L \div (g * g)
              S == [k \in 1..(B * c * c) |->
                      LET b == (k - 1) \div (c * c)
                          p == ((k - 1) % (c * c)) \div c
                          q == (k - 1) % c
                      IN  At(data, b * g * g + (p * st) * g + q * st)]
          IN  IF f = 0 \/ (B * c * c) % (f * f) # 0
              THEN [exc |-> Raise("ValueError", "reshape"), shape |-> <<0, 0>>, flat |-> <<>>]
              ELSE [exc |-> NoExc, shape |-> <<(B * c * c) \div (f * f), f * f>>, flat |-> S]

(**************************** stencil builders *****************************)
\* a[x, y] of a = a.reshape(n_x, n_y)
Reshaped(a, n_y, x, y) == At(a, x * n_y + y)

HasRight(n_x, x) == x # n_x - 1

HasDown(n_y, y) == y # n_y - 1

\* edge_attr tuples of grid: the signed unit offset
attr_grid(dir, rev) ==
    IF dir = "x" THEN (IF rev THEN <<-1, 0, 0>> ELSE <<1, 0, 0>>)
                 ELSE (IF rev THEN <<0, -1, 0>> ELSE <<0, 1, 0>>)

\* grid_edge storing (d, a1, a2) for both directions
attr_grid_edge_noswap(n_x, n_y, a, x, y, dir, rev) ==
    LET d  == IF dir = "x" THEN <<1, n_x>> ELSE <<1, n_y>>
        a1 == Reshaped(a, n_y, x, y)
        a2 == IF dir = "x" THEN Reshaped(a, n_y, x + 1, y) ELSE Reshaped(a, n_y, x, y + 1)
    IN  <<d, a1, a2>>

\* edge_attr tuples of grid_edge: (d, a1, a2) and (d, a2, a1)
attr_grid_edge(n_x, n_y, a, x, y, dir, rev) ==
    LET d  == IF dir = "x" THEN <<1, n_x>> ELSE <<1, n_y>>
        a1 == Reshaped(a, n_y, x, y)
        a2 == IF dir = "x" THEN Reshaped(a, n_y, x + 1, y) ELSE Reshaped(a, n_y, x, y + 1)
    IN  IF rev THEN <<d, a2, a1>> ELSE <<d, a1, a2>>

\* edge_attr tuples of grid_edge_aug: (d, a1, a2, 1/sqrt|a1*a2|, exp(-d^2), exp(-(d/0.1)^2), exp(-(d/0.01)^2))
attr_grid_edge_aug(n_x, n_y, a, x, y, dir, rev) ==
    LET d  == IF dir = "x" THEN <<1, n_x>> ELSE <<1, n_y>>
        a1 == Reshaped(a, n_y, x, y)
        a2 == IF dir = "x" THEN Reshaped(a, n_y, x + 1, y) ELSE Reshaped(a, n_y, x, y + 1)
        k  == <<[invsqrtabs |-> Abs(a1 * a2)],
                [gauss |-> d, scale |-> <<1, 1>>],
                [gauss |-> d, scale |-> <<1, 10>>],
                [gauss |-> d, scale |-> <<1, 100>>]>>
    IN  (IF rev THEN <<d, a2, a1>> ELSE <<d, a1, a2>>) \o k

attr_of(kind, n_x, n_y, a, x, y, dir, rev) ==
    CASE kind = "grid"          -> attr_grid(dir, rev)
      [] kind = "grid_edge"     -> attr_grid_edge(n_x, n_y, a, x, y, dir, rev)
      [] kind = "grid_edge_aug" -> attr_grid_edge_aug(n_x, n_y, a, x, y, dir, rev)

\* one iteration of the (y, x) loop body: the edges appended for node i = y*n_x + x
NodeEdges(kind, n_x, n_y, a, x, y) ==
    LET i == y * n_x + x
    IN  (IF HasRight(n_x, x)
         THEN << [e |-> <<i, i + 1>>, f |-> attr_of(kind, n_x, n_y, a, x, y, "x", FALSE)],
                 [e |-> <<i + 1, i>>, f |-> attr_of(kind, n_x, n_y, a, x, y, "x", TRUE)] >>
         ELSE <<>>)
        \o
        (IF HasDown(n_y, y)
         THEN << [e |-> <<i, i + n_x>>, f |-> attr_of(kind, n_x, n_y, a, x, y, "y", FALSE)],
                 [e |-> <<i + n_x, i>>, f |-> attr_of(kind, n_x, n_y, a, x, y, "y", TRUE)] >>
         ELSE <<>>)

\* for y in range(n_y): for x in range(n_x): ...   (k runs over the iterations in order)
RECURSIVE StencilLoop(_, _, _, _, _)
StencilLoop(kind, n_x, n_y, a, k) ==
    IF k >= n_x * n_y THEN <<>>
    ELSE NodeEdges(kind, n_x, n_y, a, k % n_x, k \div n_x)
         \o StencilLoop(kind, n_x, n_y, a, k + 1)

Failed(e) == [exc |-> e, X |-> <<>>, edge_index |-> <<>>, edge_attr |-> <<>>]

\* the tensors built after the loop; torch.tensor([]) is 1-D, so .transpose(0, 1)
\* of an empty edge list raises IndexError
Tensors(n_x, n_y, es) ==
    IF es = <<>>
    THEN Failed(Raise("IndexError", "transpose"))
    ELSE [exc        |-> NoExc,
          X          |-> meshgrid2(linspace(0, 1, n_x), linspace(0, 1, n_y)),
          edge_index |-> [k \in 1..Len(es) |-> es[k].e],
          edge_attr  |-> [k \in 1..Len(es) |-> es[k].f]]

\* grid with the two resolutions exchanged in the loop
grid_transposed(n_x, n_y) == Tensors(n_x, n_y, StencilLoop("grid", n_y, n_x, <<>>, 0))

grid(n_x, n_y) == Tensors(n_x, n_y, StencilLoop("grid", n_x, n_y, <<>>, 0))

grid_edge(n_x, n_y, a) ==
    IF Len(a) # n_x * n_y
    THEN Failed(Raise("ValueError", "reshape"))
    ELSE Tensors(n_x, n_y, StencilLoop("grid_edge", n_x, n_y, a, 0))

grid_edge_aug(n_x, n_y, a) ==
    IF Len(a) # n_x * n_y
    THEN Failed(Raise("ValueError", "reshape"))
    ELSE Tensors(n_x, n_y, StencilLoop("grid_edge_aug", n_x, n_y, a, 0))

(************************ calls of the stencil builders ********************)
Unbound == [bound |-> FALSE, X |-> <<>>, edge_index |-> <<>>, edge_attr |-> <<>>]

Idle ==
    /\ l = 0 /\ num_nodes = 0
    /\ X_global = <<>> /\ edge_index_global = <<>> /\ edge_attr_global = <<>>
    /\ inner = Unbound

InitStencil ==
    /\ \E n_x \in 1..MaxN, n_y \in 1..MaxN :
         \/ fn = "grid" /\ args = [n_x |-> n_x, n_y |-> n_y]
         \/ /\ fn \in {"grid_edge", "grid_edge_aug"}
            /\ \E a \in Fields(n_x * n_y) : args = [n_x |-> n_x, n_y |-> n_y, a |-> a]
    /\ pc = "start" /\ ret = None /\ exc = NoExc
    /\ Idle /\ self = None

Return(r) ==
    /\ exc' = r.exc
    /\ IF r.exc = NoExc
       THEN pc' = "done" /\ ret' = [x \in DOMAIN r \ {"exc"} |-> r[x]]
       ELSE pc' = "raised" /\ ret' = None

Call_grid ==
    /\ pc = "start" /\ fn = "grid"
    /\ Return(grid(args.n_x, args.n_y))
    /\ UNCHANGED <<fn, args, mg_locals, self>>

Call_grid_edge ==
    /\ pc = "start" /\ fn = "grid_edge"
    /\ Return(grid_edge(args.n_x, args.n_y, args.a))
    /\ UNCHANGED <<fn, args, mg_locals, self>>

Call_grid_edge_aug ==
    /\ pc = "start" /\ fn = "grid_edge_aug"
    /\ Return(grid_edge_aug(args.n_x, args.n_y, args.a))
    /\ UNCHANGED <<fn, args, mg_locals, self>>

(********************* properties of the stencil builders ******************)
StencilDone == fn \in {"grid", "grid_edge", "grid_edge_aug"} /\ pc = "done"

LatticeX(i) == i % args.n_x

LatticeY(i) == i \div args.n_x

\* C3: for n_x, n_y >= 2, grid(n_x, n_y) returns exactly
\* 2*(n_x-1)*n_y + 2*n_x*(n_y-1) directed edges, every source and target is
\* in 0..n_x*n_y-1, and every edge joins two horizontal or vertical lattice
\* neighbours under i = y*n_x + x (no diagonal, no row wraparound, no self-loop).
C3_GridStencil ==
    (fn = "grid" /\ pc # "start" /\ args.n_x >= 2 /\ args.n_y >= 2) =>
        /\ pc = "done"
        /\ Len(ret.edge_index) =
              2 * (args.n_x - 1) * args.n_y + 2 * args.n_x * (args.n_y - 1)
        /\ \A k \in 1..Len(ret.edge_index) :
              LET i == ret.edge_index[k][1]
                  j == ret.edge_index[k][2]
              IN  /\ i \in 0..(args.n_x * args.n_y - 1)
                  /\ j \in 0..(args.n_x * args.n_y - 1)
                  /\ \/ LatticeY(i) = LatticeY(j) /\ Abs(LatticeX(i) - LatticeX(j)) = 1
                     \/ LatticeX(i) = LatticeX(j) /\ Abs(LatticeY(i) - LatticeY(j)) = 1

C3_Witness ==
    /\ fn = "grid" /\ pc = "done" /\ args.n_x = 3 /\ args.n_y = 2
    /\ Len(ret.edge_index) = 14

\* the direction-swapped feature: negated offset for grid, components 1 and 2
\* exchanged (all others kept) for grid_edge and grid_edge_aug
Swapped(f) ==
    IF fn = "grid" THEN <<-f[1], -f[2], -f[3]>>
    ELSE [c \in 1..Len(f) |-> IF c = 2 THEN f[3] ELSE IF c = 3 THEN f[2] ELSE f[c]]

\* C4: in the output of each stencil builder every directed edge (i,j) at
\* position k has its reverse (j,i) in the list, the feature at the reverse
\* edge's position is the direction-swapped feature of edge k, the feature
\* list is as long as the edge list, and position k of the features describes
\* the edge at position k (its direction and axis).
C4_ReverseFeatures ==
    StencilDone =>
        /\ Len(ret.edge_attr) = Len(ret.edge_index)
        /\ \A k \in 1..Len(ret.edge_index) :
              LET i == ret.edge_index[k][1]
                  j == ret.edge_index[k][2]
              IN  /\ \E k2 \in 1..Len(ret.edge_index) : ret.edge_index[k2] = <<j, i>>
                  /\ \A k2 \in 1..Len(ret.edge_index) :
                        ret.edge_index[k2] = <<j, i>> =>
                            ret.edge_attr[k2] = Swapped(ret.edge_attr[k])
                  /\ IF fn = "grid"
                     THEN ret.edge_attr[k] =
                            <<LatticeX(j) - LatticeX(i), LatticeY(j) - LatticeY(i), 0>>
                     ELSE ret.edge_attr[k][1] =
                            (IF LatticeY(i) = LatticeY(j) THEN <<1, args.n_x>>
                                                          ELSE <<1, args.n_y>>)

C4_Witness ==
    /\ fn = "grid_edge_aug" /\ pc = "done" /\ args.n_x = 2 /\ args.n_y = 3
    /\ args.a = <<1, 2, 3, 4, 5, 6>>
    /\ \E k \in 1..Len(ret.edge_attr) : ret.edge_attr[k][2] # ret.edge_attr[k][3]

\* C10 (as claimed): for every edge (i,j) emitted by grid_edge or
\* grid_edge_aug, feature component 1 is a[i] and component 2 is a[j], i and j
\* being the indices of the returned node list (i = y*n_x + x).
C10_Claim ==
    (fn \in {"grid_edge", "grid_edge_aug"} /\ pc = "done") =>
        \A k \in 1..Len(ret.edge_index) :
            /\ ret.edge_attr[k][2] = At(args.a, ret.edge_index[k][1])
            /\ ret.edge_attr[k][3] = At(args.a, ret.edge_index[k][2])

NextStencil == Call_grid \/ Call_grid_edge \/ Call_grid_edge_aug

SpecStencil == InitStencil /\ [][NextStencil]_vars

(****************************** downsample calls ***************************)
InitDown ==
    /\ fn = "downsample"
    /\ \E k \in 1..MaxGridSize, st \in 1..MaxGridSize, B \in 1..MaxBatch :
         \E data \in Fields(B * k * k) :
            args = [data |-> data, grid_size |-> k, l |-> st]
    /\ pc = "start" /\ ret = None /\ exc = NoExc
    /\ Idle /\ self = None

Call_downsample ==
    /\ pc = "start" /\ fn = "downsample"
    /\ Return(downsample(args.data, args.grid_size, args.l))
    /\ UNCHANGED <<fn, args, mg_locals, self>>

NextDown == Call_downsample

SpecDown == InitDown /\ [][NextDown]_vars

\* C6 (as claimed): for k >= 1 and 1 <= l <= k, downsample of B flattened
\* k x k fields returns B flattened floor(k/l) x floor(k/l) fields whose entry
\* (p,q) is the original entry (p*l, q*l).
C6_Claim ==
    (fn = "downsample" /\ pc # "start" /\ args.l <= args.grid_size) =>
        LET k == args.grid_size
            f == k \div args.l
            B == Len(args.data) \div (k * k)
        IN  /\ pc = "done"
            /\ ret.shape = <<B, f * f>>
            /\ Len(ret.flat) = B * f * f
            /\ \A b \in 0..(B - 1), p \in 0..(f - 1), q \in 0..(f - 1) :
                  At(ret.flat, b * f * f + p * f + q)
                      = At(args.data, b * k * k + (p * args.l) * k + q * args.l)

(************************ distance-threshold builders **********************)
\* exact rationals <<num, den>>, den > 0
RSub(u, v) == <<u[1] * v[2] - v[1] * u[2], u[2] * v[2]>>

RAdd(u, v) == <<u[1] * v[2] + v[1] * u[2], u[2] * v[2]>>

RSq(u) == <<u[1] * u[1], u[2] * u[2]>>

RLeq(u, v) == u[1] * v[2] <= v[1] * u[2]

\* squared Euclidean distance of two points: the sum over the coordinates c .. d
RECURSIVE DistSqFrom(_, _, _)
DistSqFrom(p, q, c) ==
    IF c > Len(p) THEN <<0, 1>>
    ELSE RAdd(RSq(RSub(p[c], q[c])), DistSqFrom(p, q, c + 1))

DistSq(p, q) == DistSqFrom(p, q, 1)

\* the threshold taken exclusive
WithinBall_strict(p, q, r) == r[1] >= 0 /\ ~RLeq(RSq(r), DistSq(p, q))

\* distance <= r, distance being the non-negative root of DistSq
WithinBall(p, q, r) == r[1] >= 0 /\ RLeq(DistSq(p, q), RSq(r))

\* the product of sizes[lo .. hi]
RECURSIVE Prod(_, _, _)
Prod(sizes, lo, hi) == IF lo > hi THEN 1 ELSE sizes[lo] * Prod(sizes, lo + 1, hi)

\* np.vstack([xx.ravel() for xx in np.meshgrid(*grids)]).T for d >= 2 axes.
\* meshgrid's default indexing gives arrays of shape (m2, m1, m3, ..., md), so
\* in the ravelled order axis 2 is the slowest, then axis 1, then 3, ..., d
meshgrid(grids) ==
    LET d     == Len(grids)
        order == [k \in 1..d |-> IF k = 1 THEN 2 ELSE IF k = 2 THEN 1 ELSE k]
        sizes == [k \in 1..d |-> Len(grids[order[k]])]
        pos(j) == IF j = 1 THEN 2 ELSE IF j = 2 THEN 1 ELSE j
    IN  [i \in 1..Prod(sizes, 1, d) |->
            [j \in 1..d |->
                grids[j][(((i - 1) \div Prod(sizes, pos(j) + 1, d)) % Len(grids[j])) + 1]]]

\* SquareMeshGenerator.__init__: the exception it raises, or the attributes
\* d, n, grid of the new object (edge_index and n_edges are not set yet)
SquareMeshGenerator(real_space, mesh_size) ==
    LET d == Len(real_space)
    IN  IF Len(mesh_size) # d
        THEN [exc |-> Raise("AssertionError", "mesh_size"), obj |-> None]
        ELSE IF d = 1
        THEN [exc |-> NoExc,
              obj |-> [d |-> 1, n |-> mesh_size[1],
                       grid |-> [k \in 1..mesh_size[1] |->
                                   <<linspace(real_space[1][1], real_space[1][2],
                                              mesh_size[1])[k]>>]]]
        ELSE IF d = 0
        THEN [exc |-> Raise("ValueError", "vstack"), obj |-> None]
        ELSE [exc |-> NoExc,
              obj |-> [d |-> d, n |-> Prod(mesh_size, 1, d),
                       grid |-> meshgrid([j \in 1..d |->
                                   linspace(real_space[j][1], real_space[j][2],
                                            mesh_size[j])])]]

\* np.vstack(np.where(pwd <= r)): a 2 x E array, row 1 the sources and row 2
\* the targets of the pairs (i, j) with pwd[i, j] <= r, in row-major order
BallEdges(pts, r) ==
    LET n == Len(pts)
        all == [k \in 1..(n * n) |-> <<(k - 1) \div n, (k - 1) % n>>]
        sel == SelectSeq(all, LAMBDA e : WithinBall(At(pts, e[1]), At(pts, e[2]), r))
    IN  << [k \in 1..Len(sel) |-> sel[k][1]], [k \in 1..Len(sel) |-> sel[k][2]] >>

\* the attribute tuple of grid_edge_aug_full for the pair (p, q)
attr_full(pts, a, i1, i2) ==
    LET d == [sqrt |-> DistSq(At(pts, i1), At(pts, i2))]
    IN  <<d, At(a, i1), At(a, i2), [invsqrtabs |-> Abs(At(a, i1) * At(a, i2))],
          [gauss |-> d, scale |-> <<1, 1>>],
          [gauss |-> d, scale |-> <<1, 10>>],
          [gauss |-> d, scale |-> <<1, 100>>]>>

\* for i1 in range(n): for i2 in range(n): if d <= r: append (i1,i2) and (i2,i1)
RECURSIVE FullLoop(_, _, _, _)
FullLoop(pts, r, a, k) ==
    LET n  == Len(pts)
        i1 == k \div n
        i2 == k % n
    IN  IF k >= n * n THEN <<>>
        ELSE (IF WithinBall(At(pts, i1), At(pts, i2), r)
              THEN << [e |-> <<i1, i2>>, f |-> attr_full(pts, a, i1, i2)],
                      [e |-> <<i2, i1>>, f |-> attr_full(pts, a, i2, i1)] >>
              ELSE <<>>)
             \o FullLoop(pts, r, a, k + 1)

grid_edge_aug_full(n_x, n_y, r, a) ==
    Tensors(n_x, n_y,
            FullLoop(meshgrid2(linspace(0, 1, n_x), linspace(0, 1, n_y)), r, a, 0))

Radii == { <<rn, RadiusDen>> : rn \in (-1)..MaxRadius }

Boxes == { <<0, 1>>, <<-1, 1>> }

\* the constructor arguments tried: matching lengths in 1, 2 and 3 dimensions
\* (3 dimensions on the unit cube with 1 or 2 samples per axis), and
\* mesh_size one entry longer or shorter than real_space
MeshArgs ==
    { [real_space |-> rs, mesh_size |-> ms, r |-> None] :
        rs \in [1..1 -> Boxes] \cup [1..2 -> Boxes], ms \in [1..1 -> 1..MaxMesh] }
    \cup
    { [real_space |-> rs, mesh_size |-> ms, r |-> None] :
        rs \in [1..1 -> Boxes] \cup [1..2 -> Boxes], ms \in [1..2 -> 1..MaxMesh] }
    \cup
    { [real_space |-> rs, mesh_size |-> ms, r |-> None] :
        rs \in [1..3 -> {<<0, 1>>}], ms \in [1..2 -> 1..2] \cup [1..3 -> 1..2] }

InitBall ==
    /\ \/ fn = "SquareMeshGenerator" /\ args \in MeshArgs
       \/ /\ fn = "grid_edge_aug_full"
          /\ \E n_x \in 1..MaxMesh, n_y \in 1..MaxMesh, r \in Radii :
               \E a \in Fields(n_x * n_y) :
                   args = [n_x |-> n_x, n_y |-> n_y, r |-> r, a |-> a]
    /\ self = None /\ pc = "start"
    /\ ret = None /\ exc = NoExc /\ Idle

\* SquareMeshGenerator(real_space, mesh_size): the object is built, or the assert fails
New_SquareMeshGenerator ==
    /\ fn = "SquareMeshGenerator" /\ pc = "start"
    /\ LET made == SquareMeshGenerator(args.real_space, args.mesh_size)
       IN  IF made.exc = NoExc
           THEN pc' = "ready" /\ self' = made.obj /\ exc' = exc
           ELSE pc' = "raised" /\ self' = self /\ exc' = made.exc
    /\ UNCHANGED <<fn, args, ret, mg_locals>>

\* SquareMeshGenerator.ball_connectivity(r): sets self.edge_index and
\* self.n_edges (= edge_index.shape[1]) and returns edge_index
ball_connectivity ==
    /\ fn = "SquareMeshGenerator" /\ pc = "ready"
    /\ \E r \in Radii :
         LET ei == BallEdges(self.grid, r)
         IN  /\ self' = [d |-> self.d, n |-> self.n, grid |-> self.grid,
                         edge_index |-> ei, n_edges |-> Len(ei[1])]
             /\ ret' = ei
             /\ args' = [args EXCEPT !.r = r]
    /\ UNCHANGED <<fn, pc, exc, mg_locals>>

Call_grid_edge_aug_full ==
    /\ pc = "start" /\ fn = "grid_edge_aug_full"
    /\ Return(grid_edge_aug_full(args.n_x, args.n_y, args.r, args.a))
    /\ UNCHANGED <<fn, args, mg_locals, self>>

NextBall == New_SquareMeshGenerator \/ ball_connectivity \/ Call_grid_edge_aug_full

SpecBall == InitBall /\ [][NextBall]_vars

\* sum over the coordinates c .. d of (p_c - q_c)^2 as a fraction <<N, M>>,
\* the coordinates being fractions u/v
RECURSIVE SumSq(_, _, _)
SumSq(p, q, c) ==
    IF c > Len(p) THEN <<0, 1>>
    ELSE LET a    == p[c][1] * q[c][2] - q[c][1] * p[c][2]
             b    == p[c][2] * q[c][2]
             rest == SumSq(p, q, c + 1)
         IN  <<a * a * rest[2] + rest[1] * b * b, b * b * rest[2]>>

\* the Euclidean distance of points p and q is at most r:
\* r >= 0 and sum_c (p_c - q_c)^2 <= r^2, cleared of denominators
EuclidAtMost(p, q, r) ==
    /\ r[1] >= 0
    /\ SumSq(p, q, 1)[1] * r[2] * r[2] <= r[1] * r[1] * SumSq(p, q, 1)[2]

ThresholdGraph(pts, E, r) ==
    \A i \in 0..(Len(pts) - 1), j \in 0..(Len(pts) - 1) :
        i # j =>
            /\ (<<i, j>> \in E) <=> (<<j, i>> \in E)
            /\ (<<i, j>> \in E) <=> EuclidAtMost(At(pts, i), At(pts, j), r)

\* the (source, target) columns of a 2 x E index array
Columns(ei) == { <<ei[1][k], ei[2][k]>> : k \in 1..Len(ei[1]) }

\* ball_connectivity has been called on the object
Connected == fn = "SquareMeshGenerator" /\ pc = "ready" /\ "edge_index" \in DOMAIN self

\* C5: in the edge list returned by ball_connectivity (over the sampled
\* points) and by grid_edge_aug_full (over the n_x*n_y unit-square lattice),
\* for all i # j the edge (i,j) is present iff (j,i) is, and both are present
\* iff the Euclidean distance of points i and j is <= r (inclusive).
C5_ThresholdSymmetric ==
    /\ Connected =>
          /\ ret = self.edge_index
          /\ self.n_edges = Len(ret[1]) /\ Len(ret[2]) = Len(ret[1])
          /\ ThresholdGraph(self.grid, Columns(ret), args.r)
    /\ (fn = "grid_edge_aug_full" /\ pc = "done") =>
          ThresholdGraph(ret.X, Range(ret.edge_index), args.r)

\* a mesh where some pair lies exactly at distance r and some pair lies beyond it
C5_Witness ==
    /\ Connected /\ self.d = 2 /\ self.n = 9
    /\ args.r = <<1, 2>>
    /\ args.real_space = <<<<0, 1>>, <<0, 1>>>>
    /\ <<0, 1>> \in Columns(ret) /\ <<0, 4>> \notin Columns(ret)

(******************************** multi_grid *******************************)
Supported == {"grid", "grid_edge", "grid_edge_aug"}

Selectors == Supported \cup {"full"}

\* the if / elif chain on the selector.  The parameter named grid shadows the
\* function grid, so the first branch calls a str; the third branch calls
\* grid_edge; with no branch taken the three locals keep their previous binding
Dispatch(sel, n_x, n_y, a, prev) ==
    CASE sel = "grid"          -> Failed(Raise("TypeError", "str"))
      [] sel = "grid_edge"     -> grid_edge(n_x, n_y, a)
      [] sel = "grid_edge_aug" -> grid_edge(n_x, n_y, a)
      [] OTHER                 ->
            IF prev.bound
            THEN [exc |-> NoExc, X |-> prev.X,
                  edge_index |-> prev.edge_index, edge_attr |-> prev.edge_attr]
            ELSE Failed(Raise("UnboundLocalError", "edge_index_inner"))

\* edge_index_inner + num_nodes
ShiftEdges(ei, off) == [k \in 1..Len(ei) |-> <<ei[k][1] + off, ei[k][2] + off>>]

\* torch.tensor(range(n_l)) + num_nodes
Index1(n_l, off) == [k \in 1..n_l |-> (k - 1) + off]

\* the coarse index grid tiled (torch's repeat) instead of repeated entry by entry
Index2_tile(h_x, h_y, off) ==
    LET rows == 2 * (h_x \div 2)
        cols == 2 * (h_y \div 2)
    IN  [k \in 1..(rows * cols) |->
            (((k - 1) \div cols) % (h_x \div 2)) * (h_y \div 2)
              + (((k - 1) % cols) % (h_y \div 2)) + off]

\* np.array(range(n_l // 4)).reshape(h_x // 2, h_y // 2).repeat(2, 0).repeat(2, 1),
\* flattened, + num_nodes: entry (r, c) of the repeated array is (r // 2) * (h_y // 2) + c // 2
Index2(h_x, h_y, off) ==
    LET rows == 2 * (h_x \div 2)
        cols == 2 * (h_y \div 2)
    IN  [k \in 1..(rows * cols) |->
            (((k - 1) \div cols) \div 2) * (h_y \div 2) + (((k - 1) % cols) \div 2) + off]

\* torch.cat([u, v], dim=-1).reshape(2, -1), read as a list of (source, target) columns
CatReshape2(u, v) ==
    LET w == u \o v
        m == Len(w) \div 2
    IN  [k \in 1..m |-> <<w[k], w[m + k]>>]

\* only the fine->coarse direction
InterEdges_oneway(index1, index2) == CatReshape2(index1, index2)

\* edge_index_inter = cat([cat([index1,index2]).reshape(2,-1), cat([index2,index1]).reshape(2,-1)], dim=1)
InterEdges(index1, index2) == CatReshape2(index1, index2) \o CatReshape2(index2, index1)

\* edge_attr_inter: n_l rows (0,0,1) followed by n_l rows (0,0,-1)
InterAttr(n_l) == [k \in 1..(2 * n_l) |-> IF k <= n_l THEN <<0, 0, 1>> ELSE <<0, 0, -1>>]

\* num_nodes = n_l
Advance_assign(num, n_l) == n_l

\* num_nodes += n_l
Advance(num, n_l) == num + n_l

InitMulti ==
    /\ fn = "multi_grid"
    /\ \E depth \in 1..MaxDepth, n_x \in 1..MaxSide, n_y \in 1..MaxSide, sel \in Selectors :
         \E params \in Fields(n_x * n_y) :
            args = [depth |-> depth, n_x |-> n_x, n_y |-> n_y, grid |-> sel, params |-> params]
    /\ pc = "loop" /\ ret = None /\ exc = NoExc
    /\ Idle /\ self = None

MgRaise(e) ==
    /\ pc' = "raised" /\ exc' = e
    /\ UNCHANGED <<fn, args, ret, mg_locals, self>>

\* one iteration of  for l in range(depth)
Level ==
    /\ fn = "multi_grid" /\ pc = "loop" /\ l < args.depth
    /\ LET h_x_l == args.n_x \div (2 ^ l)
           h_y_l == args.n_y \div (2 ^ l)
           n_l   == h_x_l * h_y_l
           a     == downsample(args.params, args.n_x, 2 ^ l)
           built == Dispatch(args.grid, h_y_l, h_x_l, a.flat, inner)
           index1 == Index1(n_l, num_nodes)
           after  == Advance(num_nodes, n_l)
           index2 == Index2(h_x_l, h_y_l, after)
       IN  IF a.exc # NoExc THEN MgRaise(a.exc)
           ELSE IF built.exc # NoExc THEN MgRaise(built.exc)
           ELSE IF l # args.depth - 1 /\ n_l \div 4 # (h_x_l \div 2) * (h_y_l \div 2)
                THEN MgRaise(Raise("ValueError", "reshape"))
           ELSE IF l # args.depth - 1 /\ (Len(index1) + Len(index2)) % 2 # 0
                THEN MgRaise(Raise("RuntimeError", "reshape"))
           ELSE
             /\ inner' = [bound |-> TRUE, X |-> built.X,
                          edge_index |-> ShiftEdges(built.edge_index, num_nodes),
                          edge_attr |-> built.edge_attr]
             /\ X_global' = Append(X_global, built.X)
             /\ num_nodes' = after
             /\ IF l # args.depth - 1
                THEN /\ edge_index_global' =
                           edge_index_global \o
                              <<ShiftEdges(built.edge_index, num_nodes), InterEdges(index1, index2)>>
                     /\ edge_attr_global' =
                           edge_attr_global \o <<built.edge_attr, InterAttr(n_l)>>
                ELSE /\ edge_index_global' =
                           Append(edge_index_global, ShiftEdges(built.edge_index, num_nodes))
                     /\ edge_attr_global' = Append(edge_attr_global, built.edge_attr)
             /\ l' = l + 1
             /\ UNCHANGED <<fn, args, pc, ret, exc, self>>

\* after the loop: the three torch.cat calls, the mask and the returned 5-tuple;
\* torch.cat over rows of different widths raises RuntimeError
Finish ==
    /\ fn = "multi_grid" /\ pc = "loop" /\ l = args.depth
    /\ LET attrs == Concat(edge_attr_global)
       IN  IF Cardinality({ Len(attrs[k]) : k \in 1..Len(attrs) }) > 1
           THEN MgRaise(Raise("RuntimeError", "cat"))
           ELSE /\ ret' = << Concat(X_global), Concat(edge_index_global), attrs,
                            [k \in 1..(args.n_x * args.n_y) |-> k - 1], num_nodes >>
                /\ pc' = "done"
                /\ UNCHANGED <<fn, args, exc, mg_locals, self>>

Next == Level \/ Finish

Spec == InitMulti /\ [][Next]_vars

(************************* properties of multi_grid ************************)
MgDone == fn = "multi_grid" /\ pc = "done"

\* n_x and n_y are divisible by 2^(depth-1)
Divisible ==
    /\ args.n_x % (2 ^ (args.depth - 1)) = 0
    /\ args.n_y % (2 ^ (args.depth - 1)) = 0

LevelNodes(j) == (args.n_x \div (2 ^ j)) * (args.n_y \div (2 ^ j))

\* number of nodes of the levels 0 .. j-1
RECURSIVE NodesBelow(_)
NodesBelow(j) == IF j = 0 THEN 0 ELSE NodesBelow(j - 1) + LevelNodes(j - 1)

\* The part of C1 that holds: whenever multi_grid does return a graph, (a)
\* the node count is the sum over the levels of (n_x // 2^l) * (n_y // 2^l)
\* and is the number of rows of the node array,
\* (b) every index of the combined edge list is in 0 .. count-1, (c) the mask
\* is 0, 1, ..., n_x*n_y - 1 and the finest level is the first node block.
C1_MultiGridInvariant ==
    (MgDone /\ args.depth >= 1 /\ Divisible) =>
        /\ ret[5] = NodesBelow(args.depth)
        /\ Len(ret[1]) = ret[5]
        /\ \A k \in 1..Len(ret[2]) :
              /\ ret[2][k][1] \in 0..(ret[5] - 1)
              /\ ret[2][k][2] \in 0..(ret[5] - 1)
        /\ ret[4] = [k \in 1..(args.n_x * args.n_y) |-> k - 1]
        /\ Len(X_global[1]) = args.n_x * args.n_y
        /\ SubSeq(ret[1], 1, args.n_x * args.n_y) = X_global[1]

C1_Witness ==
    /\ MgDone /\ args.depth = 3 /\ args.n_x = 4 /\ args.n_y = 8
    /\ ret[5] = 42 /\ Len(ret[2]) > 0

\* C1 (as claimed): for depth >= 1 and n_x, n_y divisible by 2^(depth-1) (here
\* with the selector grid_edge) multi_grid raises nothing and returns a graph
\* in which (a) the node count is the sum over the levels of
\* (n_x // 2^l) * (n_y // 2^l) and the number of rows of the node array, (b)
\* every index of the combined edge list is in 0 .. count-1, (c) the mask is
\* 0, 1, ..., n_x*n_y - 1 and the finest level is the first node block.
C1_Claim ==
    (fn = "multi_grid" /\ args.grid = "grid_edge" /\ args.depth >= 1 /\ Divisible) =>
        /\ pc # "raised"
        /\ pc = "done" =>
              /\ ret[5] = NodesBelow(args.depth)
              /\ Len(ret[1]) = ret[5]
              /\ \A k \in 1..Len(ret[2]) :
                    /\ ret[2][k][1] \in 0..(ret[5] - 1)
                    /\ ret[2][k][2] \in 0..(ret[5] - 1)
              /\ ret[4] = [k \in 1..(args.n_x * args.n_y) |-> k - 1]

\* a square domain whose every level, the coarsest included, has at least 2 x 2
\* nodes: the builders and downsample accept every level of it
EveryLevelBuilds ==
    /\ args.n_x = args.n_y /\ Divisible
    /\ args.n_x \div (2 ^ (args.depth - 1)) >= 2

Side(j) == args.n_x \div (2 ^ j)

\* 4*h*(h-1) intra-level edges on every level, 2*h^2 inter-level edges on every
\* level but the coarsest, for the levels 0 .. j-1
RECURSIVE EdgesBelow(_)
EdgesBelow(j) ==
    IF j = 0 THEN 0
    ELSE EdgesBelow(j - 1)
         + 4 * Side(j - 1) * (Side(j - 1) - 1)
         + (IF j - 1 # args.depth - 1 THEN 2 * Side(j - 1) * Side(j - 1) ELSE 0)

\* C2: for a square n x n domain, n divisible by 2^(depth-1), and the policy
\* grid_edge, the returned graph has sum_l h_l^2 nodes and
\* sum_l 4*h_l*(h_l-1) + sum_{l < depth-1} 2*h_l^2 directed edges, with as many
\* edge features; n = 4, depth = 2 gives 20 nodes and 88 edges.  The loop runs
\* all depth levels, and the call does return when the coarsest level has at
\* least 2 x 2 nodes.
C2_SquareCounts ==
    (fn = "multi_grid" /\ args.grid = "grid_edge" /\ args.n_x = args.n_y /\ Divisible) =>
        /\ EveryLevelBuilds => pc # "raised"
        /\ pc = "done" =>
              /\ l = args.depth /\ Len(X_global) = args.depth
              /\ ret[5] = NodesBelow(args.depth)
              /\ Len(ret[1]) = ret[5]
              /\ Len(ret[2]) = EdgesBelow(args.depth)
              /\ Len(ret[3]) = Len(ret[2])
              /\ (args.n_x = 4 /\ args.depth = 2) => (ret[5] = 20 /\ Len(ret[2]) = 88)

C2_Witness ==
    /\ MgDone /\ args.grid = "grid_edge" /\ args.n_x = 4 /\ args.n_y = 4 /\ args.depth = 2
    /\ args.params = [k \in 1..16 |-> 1]
    /\ ret[5] = 20 /\ Len(ret[2]) = 88 /\ Len(ret[3]) = 88

\* C7 (as claimed): with a selector that is none of grid, grid_edge,
\* grid_edge_aug the call fails with an "unknown variant" error that names the
\* selector, and returns no graph.
C7_Claim ==
    (fn = "multi_grid" /\ args.grid \notin Supported /\ EveryLevelBuilds /\ pc # "loop") =>
        /\ pc = "raised" /\ ret = None
        /\ exc = Raise("UnknownVariant", args.grid)

\* the builder that carries the selector's name
SameNamed(sel, n_x, n_y, a) ==
    CASE sel = "grid"          -> grid(n_x, n_y)
      [] sel = "grid_edge"     -> grid_edge(n_x, n_y, a)
      [] sel = "grid_edge_aug" -> grid_edge_aug(n_x, n_y, a)

\* C8 (as claimed): for each of the three supported selectors the call
\* completes and returns the 5-tuple, and the intra-level block of every level
\* is the output of the same-named builder at that level's resolution on the
\* field downsampled with stride 2^l, its indices shifted by the node count of
\* the finer levels.
C8_Claim ==
    (fn = "multi_grid" /\ args.grid \in Supported /\ EveryLevelBuilds) =>
        /\ pc # "raised"
        /\ pc = "done" => Len(ret) = 5
        /\ \A j \in 0..(l - 1) :
              LET b == SameNamed(args.grid, args.n_y \div (2 ^ j), args.n_x \div (2 ^ j),
                                 downsample(args.params, args.n_x, 2 ^ j).flat)
              IN  /\ edge_index_global[2 * j + 1] = ShiftEdges(b.edge_index, NodesBelow(j))
                  /\ Len(edge_attr_global[2 * j + 1]) = Len(b.edge_attr)
                  /\ \A k \in 1..Len(b.edge_attr) :
                        edge_attr_global[2 * j + 1][k] = b.edge_attr[k]

\* lattice position (x, y) of node k (0-based) of level j, read off the level's
\* own node list: linspace(0, 1, n) puts lattice index t at t/(n-1)
PosOf(j, k) == <<X_global[j + 1][k + 1][1][1], X_global[j + 1][k + 1][2][1]>>

\* C9: for every level j but the coarsest and every fine node of it at lattice
\* position (x, y), the inter-level block holds exactly one edge from that node
\* (global index = level offset + index in the level's node list) to the node
\* of level j+1 at (x div 2, y div 2), with feature (0,0,1), and exactly one
\* edge back, with feature (0,0,-1); every coarse node is the parent of exactly
\* 4 fine nodes, and the fine->coarse edges precede the coarse->fine edges.
C9_InterLevel ==
    fn = "multi_grid" =>
      \A j \in 0..(args.depth - 2) :
        l >= j + 2 =>
          LET blk == edge_index_global[2 * j + 2]
              att == edge_attr_global[2 * j + 2]
              n_j == Len(X_global[j + 1])
              n_c == Len(X_global[j + 2])
              off_f == NodesBelow(j)
              off_c == NodesBelow(j + 1)
          IN  /\ Len(blk) = 2 * n_j /\ Len(att) = 2 * n_j
              /\ \A k \in 0..(n_j - 1) :
                    LET parents == { k2 \in 0..(n_c - 1) :
                                       PosOf(j + 1, k2) =
                                         <<PosOf(j, k)[1] \div 2, PosOf(j, k)[2] \div 2>> }
                    IN  /\ Cardinality(parents) = 1
                        /\ Cardinality({ p \in 1..n_j : blk[p][1] = off_f + k }) = 1
                        /\ Cardinality({ p \in (n_j + 1)..(2 * n_j) : blk[p][2] = off_f + k }) = 1
                        /\ \A k2 \in parents :
                              /\ \E p \in 1..n_j :
                                    blk[p] = <<off_f + k, off_c + k2>> /\ att[p] = <<0, 0, 1>>
                              /\ \E p \in (n_j + 1)..(2 * n_j) :
                                    blk[p] = <<off_c + k2, off_f + k>> /\ att[p] = <<0, 0, -1>>
              /\ \A p \in 1..(2 * n_j) :
                    att[p] = (IF p <= n_j THEN <<0, 0, 1>> ELSE <<0, 0, -1>>)
              /\ \A k2 \in 0..(n_c - 1) :
                    Cardinality({ p \in 1..n_j : blk[p][2] = off_c + k2 }) = 4

C9_Witness ==
    /\ MgDone /\ args.depth = 3 /\ args.n_x = 4 /\ args.n_y = 8
    /\ <<5, 32 + 2>> \in Range(edge_index_global[2])
    /\ <<32 + 7, 40 + 1>> \in Range(edge_index_global[4])

=============================================================================
